---- MODULE Spec2Model ----
(***************************************************************************)
(* Model of the MDF4 channel-group block, mdflib/src/cg4block.cpp          *)
(* (class mdf::detail::Cg4Block): record layout, record stream codec,      *)
(* block write / update / read and the back-patching of channel links.     *)
(*                                                                         *)
(* Numbers.  TLC integers are 32 bits wide, so the two uint32_t counters   *)
(* nof_data_bytes_ and nof_invalid_bytes_, which together hold a 64-bit    *)
(* VLSD size, are kept as little-endian sequences of 16-bit limbs.  The    *)
(* other members stay plain naturals; the model keeps them below 2^31.     *)
(***************************************************************************)
EXTENDS Integers, Sequences, FiniteSets, TLC

VARIABLES
  cg,        \* the Cg4Block objects of the hierarchy: group id -> members
  file,      \* bytes of the MDF file being written; offset k is file[k+1]
  data,      \* bytes of the sample-record stream being replayed
  data_pos,  \* read position of the record stream
  observed,  \* every NotifySampleObservers call so far, in call order
  calls,     \* the member functions called so far and what each returned
  cg0        \* the groups as they were when the session started

vars == <<cg, file, data, data_pos, observed, calls, cg0>>

----------------------------------------------------------------------------
(* Bounds of the model *)

NGroups == 2
MaxFrames == 3
MaxPayload == 2
MaxCut == 5
MaxSamples == 3
MaxCalls == 5
MaxChannels == 3
MaxFlagged == 9
Preamble == 8
MaxPatchChannels == 2
MaxAxisChannels == 2
MaxTopChannels == 2

GroupIds == 1..NGroups

----------------------------------------------------------------------------
(* Fixed-width unsigned numbers *)

\* one 16-bit half of a uint32_t
Limb == 65536

\* uint32_t from a small natural
U32(n) ==
  <<n % Limb, (n \div Limb) % Limb>>

\* the natural held by a uint32_t that is below 2^31
U32Val(x) ==
  x[1] + Limb * x[2]

\* uint64_t from a uint32_t (integral promotion)
U64From32(x) ==
  <<x[1], x[2], 0, 0>>

\* uint64_t from a small natural (size_t count)
U64(n) ==
  <<n % Limb, (n \div Limb) % Limb, 0, 0>>

\* v <<= 32 on a uint64_t
Shl32(v) ==
  <<0, 0, v[1], v[2]>>

\* a slip: the two 32-bit halves are added each on its own
U64AddHalves(a, b) ==
  LET s1 == a[1] + b[1]
      s2 == a[2] + b[2] + (s1 \div Limb)
      s3 == a[3] + b[3]
      s4 == a[4] + b[4] + (s3 \div Limb)
  IN  <<s1 % Limb, s2 % Limb, s3 % Limb, s4 % Limb>>

\* a + b on uint64_t; the carry out of bit 63 is lost
U64Add(a, b) ==
  LET s1 == a[1] + b[1]
      s2 == a[2] + b[2] + (s1 \div Limb)
      s3 == a[3] + b[3] + (s2 \div Limb)
      s4 == a[4] + b[4] + (s3 \div Limb)
  IN  <<s1 % Limb, s2 % Limb, s3 % Limb, s4 % Limb>>

\* static_cast<uint32_t>(v & 0xFFFFFFFF)
Low32(v) ==
  <<v[1], v[2]>>

\* static_cast<uint32_t>(v >> 32)
High32(v) ==
  <<v[3], v[4]>>

Min(a, b) ==
  IF a < b THEN a ELSE b

----------------------------------------------------------------------------
(* Group flags *)

VlsdChannel == 1
RemoteMaster == 8

HasFlag(flags, bit) ==
  (flags \div bit) % 2 = 1

----------------------------------------------------------------------------
(* The channels a group owns (Cn4Block), as far as Cg4Block uses them *)

\* CnFlag::InvalidValid: the channel has a bit in the invalid-flag vector
InvalidValid == 2

\* an empty std::unique_ptr<Cn4Block>
Null ==
  [block_type_ |-> "null"]

IsNull(p) ==
  p.block_type_ = "null"

\* a Cn4Block: name, type, flags and width as its setters left them
NewCn(name, type, flags, width) ==
  [ block_type_     |-> "CN",
    name_           |-> name,
    type_           |-> type,
    flags_          |-> flags,
    data_bytes_     |-> width,
    byte_offset_    |-> 0,
    invalid_bit_pos_ |-> 0,
    file_position_  |-> 0,
    data_link_      |-> 0,
    vlsd_record_id_ |-> 0,
    x_axis_         |-> <<>>,
    cx_list_        |-> <<>> ]

\* Cn4Block::PrepareForWriting(byte_offset)
CnPrepareForWriting(cn, byte_offset) ==
  [cn EXCEPT !.byte_offset_ = byte_offset]

\* Cn4Block::SetInvalidOffset(bit_offset)
SetInvalidOffset(cn, bit_offset) ==
  [cn EXCEPT !.invalid_bit_pos_ = bit_offset]

----------------------------------------------------------------------------
(* The Cg4Block object *)

\* a default constructed Cg4Block
NewCg ==
  [ record_id_            |-> 0,
    nof_samples_          |-> 0,
    flags_                |-> 0,
    path_separator_       |-> 46,
    nof_data_bytes_       |-> U32(0),
    nof_invalid_bytes_    |-> U32(0),
    acquisition_name_     |-> <<>>,
    sample_               |-> 0,
    file_position_        |-> 0,
    block_length_         |-> 0,
    link_list_            |-> <<>>,
    nof_samples_position_ |-> 0,
    nof_data_position_    |-> 0,
    nof_invalid_position_ |-> 0,
    cn_list_              |-> <<>>,
    sample_buffer_        |-> 0 ]

----------------------------------------------------------------------------
(* The sample-record stream *)

\* the byte stored at offset off of a record payload: never 0, and different
\* at every offset, so that a shifted or zero-filled record shows
Tag(off) ==
  16 + off

\* little-endian bytes of a number, as WriteNumber emits them
RECURSIVE LE(_, _)
LE(v, w) ==
  IF w = 0 THEN <<>> ELSE <<v % 256>> \o LE(v \div 256, w - 1)

\* the number held by little-endian bytes, as ReadNumber returns it
RECURSIVE FromLE(_)
FromLE(b) ==
  IF b = <<>> THEN 0 ELSE Head(b) + 256 * FromLE(Tail(b))

\* a VLSD stream: frames (uint32 length, length bytes), first frame at off
RECURSIVE VlsdStream(_, _)
VlsdStream(lens, off) ==
  IF lens = <<>>
  THEN <<>>
  ELSE LET l == Head(lens)
       IN  LE(l, 4) \o [j \in 1..l |-> Tag(off + 3 + j)]
             \o VlsdStream(Tail(lens), off + 4 + l)

\* a stream of n bytes of fixed-length records
FixedStream(n) ==
  [i \in 1..n |-> Tag(i - 1)]

SeqsUpTo(S, n) ==
  UNION {[1..k -> S] : k \in 0..n}

\* a stream that lost its last c bytes (a file still being written)
Cut(s, c) ==
  SubSeq(s, 1, Len(s) - Min(c, Len(s)))

\* bytes left in the stream at position pos
Avail(pos) ==
  IF pos < Len(data) THEN Len(data) - pos ELSE 0

\* std::fread(buf, 1, n, file) into a buffer of n zero bytes
Fread(pos, n) ==
  LET got == Min(n, Avail(pos))
  IN  [ count |-> got,
        pos   |-> pos + got,
        buf   |-> [i \in 1..n |-> IF i <= got THEN data[pos + i] ELSE 0] ]

\* MdfBlock::ReadNumber(file, uint32_t&) on a destination that holds 0
ReadNumber32(pos) ==
  LET r == Fread(pos, 4)
  IN  [ count |-> r.count,
        pos   |-> r.pos,
        value |-> IF r.count = 4 THEN FromLE(r.buf) ELSE 0 ]

\* StepFilePosition(file, steps): seek forward from the current position
StepFilePosition(pos, steps) ==
  [count |-> steps, pos |-> pos + steps]

Called(g, op, count) ==
  calls' = Append(calls, [cg |-> g, op |-> op, count |-> count])

IsVlsd(g) ==
  HasFlag(cg[g].flags_, VlsdChannel)

RecordSize(g) ==
  U32Val(cg[g].nof_data_bytes_) + U32Val(cg[g].nof_invalid_bytes_)

\* a slip: the bound on the cursor is off by one
DeliverPastCount(g, record) ==
  IF cg[g].sample_ <= cg[g].nof_samples_
  THEN /\ observed' = Append(observed, [ sample    |-> cg[g].sample_,
                                         record_id |-> cg[g].record_id_,
                                         record    |-> record ])
       /\ cg' = [cg EXCEPT ![g].sample_ = @ + 1]
  ELSE UNCHANGED <<observed, cg>>

\* NotifySampleObservers + IncrementSample when Sample() < NofSamples()
Deliver(g, record) ==
  IF cg[g].sample_ < cg[g].nof_samples_
  THEN /\ observed' = Append(observed, [ sample    |-> cg[g].sample_,
                                         record_id |-> cg[g].record_id_,
                                         record    |-> record ])
       /\ cg' = [cg EXCEPT ![g].sample_ = @ + 1]
  ELSE UNCHANGED <<observed, cg>>

\* a slip: the payload of a frame is read from where its length prefix starts
ReadDataRecordFromPrefix(g) ==
  /\ Len(calls) < MaxCalls
  /\ IF IsVlsd(g)
     THEN LET len == ReadNumber32(data_pos)
              rec == Fread(data_pos, len.value)
          IN  /\ data_pos' = len.pos + rec.count
              /\ Deliver(g, rec.buf)
              /\ Called(g, "ReadDataRecord", len.count + rec.count)
     ELSE LET rec == Fread(data_pos, RecordSize(g))
          IN  /\ data_pos' = rec.pos
              /\ Deliver(g, rec.buf)
              /\ Called(g, "ReadDataRecord", rec.count)
  /\ UNCHANGED <<file, data, cg0>>

ReadDataRecord(g) ==
  /\ Len(calls) < MaxCalls
  /\ IF IsVlsd(g)
     THEN LET len == ReadNumber32(data_pos)
              rec == Fread(len.pos, len.value)
          IN  /\ data_pos' = rec.pos
              /\ Deliver(g, rec.buf)
              /\ Called(g, "ReadDataRecord", len.count + rec.count)
     ELSE LET rec == Fread(data_pos, RecordSize(g))
          IN  /\ data_pos' = rec.pos
              /\ Deliver(g, rec.buf)
              /\ Called(g, "ReadDataRecord", rec.count)
  /\ UNCHANGED <<file, data, cg0>>

\* the record of a VLSD group skipped over: its length prefix is read, its
\* payload is stepped over when the length is not 0
SkipVlsdRecord(pos) ==
  LET len == ReadNumber32(pos)
  IN  IF len.value > 0
      THEN LET step == StepFilePosition(len.pos, len.value)
           IN  [count |-> len.count + step.count, pos |-> step.pos]
      ELSE [count |-> len.count, pos |-> len.pos]

UpdateVlsdSize(g) ==
  /\ Len(calls) < MaxCalls
  /\ IF IsVlsd(g)
     THEN LET vlsd_size == U64Add(Shl32(U64From32(cg[g].nof_invalid_bytes_)),
                                  U64From32(cg[g].nof_data_bytes_))
              skip == SkipVlsdRecord(data_pos)
              new_size == U64Add(vlsd_size, U64(skip.count))
          IN  /\ data_pos' = skip.pos
              /\ cg' = [cg EXCEPT ![g].nof_data_bytes_ = Low32(new_size),
                                   ![g].nof_invalid_bytes_ = High32(new_size),
                                   ![g].nof_samples_ = @ + 1]
              /\ Called(g, "UpdateVlsdSize", skip.count)
     ELSE LET step == StepFilePosition(data_pos, RecordSize(g))
          IN  /\ data_pos' = step.pos
              /\ cg' = [cg EXCEPT ![g].nof_samples_ = @ + 1]
              /\ Called(g, "UpdateVlsdSize", step.count)
  /\ UNCHANGED <<file, data, observed, cg0>>

UpdateCycleCounter(g) ==
  /\ Len(calls) < MaxCalls
  /\ IF IsVlsd(g)
     THEN LET skip == SkipVlsdRecord(data_pos)
          IN  /\ data_pos' = skip.pos
              /\ cg' = [cg EXCEPT ![g].nof_samples_ = @ + 1]
              /\ Called(g, "UpdateCycleCounter", skip.count)
     ELSE LET step == StepFilePosition(data_pos, RecordSize(g))
          IN  /\ data_pos' = step.pos
              /\ cg' = [cg EXCEPT ![g].nof_samples_ = @ + 1]
              /\ Called(g, "UpdateCycleCounter", step.count)
  /\ UNCHANGED <<file, data, observed, cg0>>

StepRecord(g) ==
  /\ Len(calls) < MaxCalls
  /\ LET step == StepFilePosition(data_pos, RecordSize(g))
     IN  /\ data_pos' = step.pos
         /\ Called(g, "StepRecord", step.count)
  /\ UNCHANGED <<cg, file, data, observed, cg0>>

----------------------------------------------------------------------------
(* The MDF file: block header, links and numbers *)

kIndexNext == 0
kIndexCn == 1
kIndexName == 2
kIndexSi == 3
kIndexSr == 4
kIndexMd == 5
kIndexMaster == 6

\* an opened file that holds the blocks written before the channel groups
NewFile ==
  [i \in 1..Preamble |-> 0]

\* fwrite of bytes at offset pos of a file that reaches at least to pos
WriteAt(f, pos, bytes) ==
  SubSeq(f, 1, pos) \o bytes \o SubSeq(f, pos + Len(bytes) + 1, Len(f))

\* the w bytes at offset pos of a file, zero where the file has ended
ReadAt(f, pos, w) ==
  [i \in 1..w |-> IF pos + i <= Len(f) THEN f[pos + i] ELSE 0]

\* WriteNumber of a uint32_t member
LE32(x) ==
  LE(x[1], 2) \o LE(x[2], 2)

\* ReadNumber into a uint32_t member
FromLE32(b) ==
  <<FromLE(SubSeq(b, 1, 2)), FromLE(SubSeq(b, 3, 4))>>

\* the size of a channel block in the file: its data link
CnBlockLength == 8

\* "##CG"
CgBlockType ==
  <<35, 35, 67, 71>>

\* block_length_ of a CG block with 6 links, or 7 with a remote master
CgBlockLength(master) ==
  24 + (6 * 8) + 8 + 8 + 2 + 2 + 4 + 4 + 4 + (IF master THEN 8 ELSE 0)

\* link_list_.resize(n, 0)
Resize(links, n) ==
  [i \in 1..n |-> IF i <= Len(links) THEN links[i] ELSE 0]

RECURSIVE LinkBytes(_)
LinkBytes(links) ==
  IF links = <<>> THEN <<>> ELSE LE(Head(links), 8) \o LinkBytes(Tail(links))

\* MdfBlock::Write: the block header and the link list, at the end of the file
HeaderBytes(block_length, links) ==
  CgBlockType \o <<0, 0, 0, 0>> \o LE(block_length, 8) \o LE(Len(links), 8)
    \o LinkBytes(links)

\* WriteTx4: a text block <length, characters> for a text that is not empty
\* and has no block yet; the link of an empty text is 0
WriteTx4(f, text, link) ==
  IF text = <<>>
  THEN [file |-> f, link |-> 0]
  ELSE IF link > 0
  THEN [file |-> f, link |-> link]
  ELSE [file |-> WriteAt(f, Len(f), <<Len(text)>> \o text), link |-> Len(f)]

\* ReadTx4: the text a link points at, empty for the link 0
ReadTx4(f, link) ==
  IF link = 0
  THEN <<>>
  ELSE ReadAt(f, link + 1, ReadAt(f, link, 1)[1])

----------------------------------------------------------------------------
(* The channels of a group: flattening, writing and link patching *)

\* AddCxChannels: the composition of a channel, depth first; an entry that
\* is empty or is no CN block is skipped and not descended into
\* a slip: a composite channel is listed after its own composite channels
RECURSIVE AddCxChannelsChildrenFirst(_)
AddCxChannelsChildrenFirst(cx_list) ==
  IF cx_list = <<>>
  THEN <<>>
  ELSE LET cx == Head(cx_list)
       IN  (IF cx.block_type_ = "CN"
            THEN AddCxChannelsChildrenFirst(cx.cx_list_) \o <<cx>>
            ELSE <<>>)
           \o AddCxChannelsChildrenFirst(Tail(cx_list))

RECURSIVE AddCxChannels(_)
AddCxChannels(cx_list) ==
  IF cx_list = <<>>
  THEN <<>>
  ELSE LET cx == Head(cx_list)
       IN  (IF cx.block_type_ = "CN"
            THEN <<cx>> \o AddCxChannels(cx.cx_list_)
            ELSE <<>>)
           \o AddCxChannels(Tail(cx_list))

\* Cg4Block::Channels over a cn_list_
RECURSIVE ChannelsOf(_)
ChannelsOf(cn_list) ==
  IF cn_list = <<>>
  THEN <<>>
  ELSE LET cn4 == Head(cn_list)
       IN  (IF IsNull(cn4)
            THEN <<>>
            ELSE <<cn4>> \o AddCxChannels(cn4.cx_list_))
           \o ChannelsOf(Tail(cn_list))

Channels(g) ==
  ChannelsOf(cg[g].cn_list_)

\* a call of Channels() and the list it returns
ListChannels(g) ==
  /\ Len(calls) < MaxCalls
  /\ calls' = Append(calls, [ cg |-> g, op |-> "Channels",
                              count |-> Len(Channels(g)),
                              channels |-> Channels(g) ])
  /\ UNCHANGED <<cg, file, data, data_pos, observed, cg0>>

\* IChannelGroup::GetChannel over a flattened channel list
RECURSIVE GetChannel(_, _)
GetChannel(channels, name) ==
  IF channels = <<>>
  THEN Null
  ELSE IF Head(channels).name_ = name
  THEN Head(channels)
  ELSE GetChannel(Tail(channels), name)

\* the channel blocks of a list written by WriteLink4List at offset pos and
\* after: a block that has a position already is left where it is
RECURSIVE PlaceBlocks(_, _)
PlaceBlocks(list, pos) ==
  IF list = <<>>
  THEN [list |-> <<>>, pos |-> pos]
  ELSE LET b == Head(list)
       IN  IF b.block_type_ # "CN"
           THEN LET rest == PlaceBlocks(Tail(list), pos)
                IN  [rest EXCEPT !.list = <<b>> \o @]
           ELSE LET at == IF b.file_position_ > 0 THEN b.file_position_ ELSE pos
                    next == IF b.file_position_ > 0 THEN pos ELSE pos + CnBlockLength
                    inner == PlaceBlocks(b.cx_list_, next)
                    rest == PlaceBlocks(Tail(list), inner.pos)
                IN  [rest EXCEPT !.list =
                       <<[b EXCEPT !.file_position_ = at,
                                   !.cx_list_ = inner.list]>> \o @]

\* the bytes of the channel blocks of a flattened channel list, each at its
\* position in the file
RECURSIVE WriteCnBlocks(_, _)
WriteCnBlocks(f, channels) ==
  IF channels = <<>>
  THEN f
  ELSE WriteCnBlocks(WriteAt(f, Head(channels).file_position_,
                             LE(Head(channels).data_link_, CnBlockLength)),
                     Tail(channels))

\* the position of the first block of a list, 0 for a list without one
FirstLink(cn_list) ==
  IF ChannelsOf(cn_list) = <<>> THEN 0 ELSE ChannelsOf(cn_list)[1].file_position_

\* WriteLink4List(file, cn_list_, kIndexCn, DoNotUpdateWrittenBlock)
WriteLink4List(f, cn_list) ==
  LET placed == PlaceBlocks(cn_list, Len(f))
  IN  [ file    |-> WriteCnBlocks(f, ChannelsOf(placed.list)),
        cn_list |-> placed.list,
        link    |-> FirstLink(placed.list) ]

\* a slip: the link is moved by the position instead of set to it
RECURSIVE UpdateDataLinksRelative(_, _, _)
UpdateDataLinksRelative(list, type, position) ==
  [i \in 1..Len(list) |->
     IF list[i].block_type_ # "CN"
     THEN list[i]
     ELSE [list[i] EXCEPT
             !.data_link_ = IF list[i].type_ = type THEN @ + position ELSE @,
             !.cx_list_ = UpdateDataLinksRelative(@, type, position)]]

\* Cn4Block::UpdateDataLink(file, position) on every channel of kind type
\* that Channels() returns, the composite channels included
RECURSIVE UpdateDataLinks(_, _, _)
UpdateDataLinks(list, type, position) ==
  [i \in 1..Len(list) |->
     IF list[i].block_type_ # "CN"
     THEN list[i]
     ELSE [list[i] EXCEPT
             !.data_link_ = IF list[i].type_ = type THEN position ELSE @,
             !.cx_list_ = UpdateDataLinks(@, type, position)]]

\* a slip: cn_list_ is scanned in place of Channels(), so that the composite
\* channels are left out
PatchMaxLengthTopLevel(cn_list) ==
  LET data_length == GetChannel(ChannelsOf(cn_list), ".DataLength")
  IN  IF ~IsNull(data_length)
      THEN [i \in 1..Len(cn_list) |->
              IF ~IsNull(cn_list[i]) /\ cn_list[i].type_ = "MaxLength"
              THEN [cn_list[i] EXCEPT !.data_link_ = data_length.file_position_]
              ELSE cn_list[i]]
      ELSE cn_list

\* the data link of every MLSD channel of the group set to the position of
\* its channel ".DataLength", when it has one
PatchMaxLength(cn_list) ==
  LET data_length == GetChannel(ChannelsOf(cn_list), ".DataLength")
  IN  IF ~IsNull(data_length)
      THEN UpdateDataLinks(cn_list, "MaxLength", data_length.file_position_)
      ELSE cn_list

\* the two patches at the end of a first write: the VLSD channels of a VLSD
\* group linked to the block of the group, then the MLSD channels
BackPatch(cn_list, vlsd, block_position) ==
  PatchMaxLength(IF vlsd
                 THEN UpdateDataLinks(cn_list, "VariableLength", block_position)
                 ELSE cn_list)

\* the patches applied to the channels of group g, each link written to the
\* block of its channel
PatchGroup(g) ==
  /\ Len(calls) < MaxCalls
  /\ LET patched == BackPatch(cg[g].cn_list_, IsVlsd(g), cg[g].file_position_)
     IN  /\ cg' = [cg EXCEPT ![g].cn_list_ = patched]
         /\ file' = WriteCnBlocks(file, ChannelsOf(patched))
  /\ Called(g, "Patch", 0)
  /\ UNCHANGED <<data, data_pos, observed, cg0>>

----------------------------------------------------------------------------
(* Writing, updating and reading the block of a group.  The groups of the  *)
(* model own no source information, sample reduction or comment block, so  *)
(* WriteBlock4(si_block_), WriteLink4List(sr_list_) and WriteMdComment     *)
(* write nothing and leave their links 0.                                  *)

\* a slip: the position is taken before the record id is written
SamplesPositionBeforeRecordId(header_end) ==
  header_end

\* nof_samples_position_: where the file stands once the header, the links
\* and record_id_ are written
SamplesPosition(header_end) ==
  header_end + 8

\* the links of the block once the channel list and the name are written
LinksWritten(links, cn_link, name_link) ==
  [i \in 1..Len(links) |->
     IF i = kIndexCn + 1 /\ cn_link > 0 THEN cn_link
     ELSE IF i = kIndexName + 1 THEN name_link
     ELSE links[i]]

\* the fixed fields, in the order and widths Write emits them
FieldBytes(c) ==
  LE(c.record_id_, 8) \o LE(c.nof_samples_, 8) \o LE(c.flags_, 2)
    \o LE(c.path_separator_, 2) \o <<0, 0, 0, 0>>
    \o LE32(c.nof_data_bytes_) \o LE32(c.nof_invalid_bytes_)

\* the first write of a group: children, header, links and fields at the
\* end of the file, then the data links of its channels
FirstWrite(g) ==
  LET c == cg[g]
      master == HasFlag(c.flags_, RemoteMaster)
      vlsd == HasFlag(c.flags_, VlsdChannel)
      block_length == CgBlockLength(master)
      links0 == Resize(c.link_list_, IF master THEN 7 ELSE 6)
      cn == WriteLink4List(file, c.cn_list_)
      tx == WriteTx4(cn.file, c.acquisition_name_, links0[kIndexName + 1])
      links == LinksWritten(links0, cn.link, tx.link)
      position == Len(tx.file)
      header == HeaderBytes(block_length, links)
      header_end == position + Len(header)
      samples_position == SamplesPosition(header_end)
      data_position == header_end + 8 + 8 + 2 + 2 + 4
      invalid_position == data_position + 4
      written == WriteAt(tx.file, position, header \o FieldBytes(c))
      bytes == Len(header) + Len(FieldBytes(c))
      patched == BackPatch(cn.cn_list, vlsd, position)
  IN  /\ file' = WriteCnBlocks(written, ChannelsOf(patched))
      /\ cg' = [cg EXCEPT ![g] =
                  [c EXCEPT !.file_position_ = position,
                            !.block_length_ = bytes,
                            !.link_list_ = links,
                            !.cn_list_ = patched,
                            !.nof_samples_position_ = samples_position,
                            !.nof_data_position_ = IF vlsd THEN data_position ELSE @,
                            !.nof_invalid_position_ = IF vlsd THEN invalid_position ELSE @]]
      /\ Called(g, "Write", bytes)

\* the write of a group that has a position: new children are written,
\* MdfBlock::Update leaves the block as it is, and the counters are written
\* over at the positions the first write recorded
UpdateWrite(g) ==
  LET c == cg[g]
      cn == WriteLink4List(file, c.cn_list_)
      tx == WriteTx4(cn.file, c.acquisition_name_, c.link_list_[kIndexName + 1])
      links == LinksWritten(c.link_list_, cn.link, tx.link)
      f1 == IF c.nof_samples_position_ > 0
            THEN WriteAt(tx.file, c.nof_samples_position_, LE(c.nof_samples_, 8))
            ELSE tx.file
      f2 == IF c.nof_data_position_ > 0
            THEN WriteAt(f1, c.nof_data_position_, LE32(c.nof_data_bytes_))
            ELSE f1
      f3 == IF c.nof_invalid_position_ > 0
            THEN WriteAt(f2, c.nof_invalid_position_, LE32(c.nof_invalid_bytes_))
            ELSE f2
  IN  /\ file' = f3
      /\ cg' = [cg EXCEPT ![g] = [c EXCEPT !.link_list_ = links,
                                            !.cn_list_ = cn.cn_list]]
      /\ Called(g, "Write", c.block_length_)

\* a slip: every write takes the path of the first write
WriteAnew(g) ==
  /\ Len(calls) < MaxCalls
  /\ FirstWrite(g)
  /\ UNCHANGED <<data, data_pos, observed, cg0>>

Write(g) ==
  /\ Len(calls) < MaxCalls
  /\ IF cg[g].file_position_ > 0 THEN UpdateWrite(g) ELSE FirstWrite(g)
  /\ UNCHANGED <<data, data_pos, observed, cg0>>

\* a slip: the 4 reserved bytes before nof_data_bytes_ are not read
ReadCgWithoutReserved(c, f, position) ==
  LET link_count == FromLE(ReadAt(f, position + 16, 8))
      links == [i \in 1..link_count |-> FromLE(ReadAt(f, position + 24 + 8 * (i - 1), 8))]
      at == position + 24 + 8 * link_count
  IN  [c EXCEPT !.file_position_ = position,
                !.block_length_ = FromLE(ReadAt(f, position + 8, 8)),
                !.link_list_ = links,
                !.record_id_ = FromLE(ReadAt(f, at, 8)),
                !.nof_samples_ = FromLE(ReadAt(f, at + 8, 8)),
                !.flags_ = FromLE(ReadAt(f, at + 16, 2)),
                !.path_separator_ = FromLE(ReadAt(f, at + 18, 2)),
                !.nof_data_bytes_ = FromLE32(ReadAt(f, at + 20, 4)),
                !.nof_invalid_bytes_ = FromLE32(ReadAt(f, at + 24, 4)),
                !.acquisition_name_ = ReadTx4(f, links[kIndexName + 1])]

\* the members Cg4Block::Read sets from the block at offset position
ReadCg(c, f, position) ==
  LET link_count == FromLE(ReadAt(f, position + 16, 8))
      links == [i \in 1..link_count |-> FromLE(ReadAt(f, position + 24 + 8 * (i - 1), 8))]
      at == position + 24 + 8 * link_count
  IN  [c EXCEPT !.file_position_ = position,
                !.block_length_ = FromLE(ReadAt(f, position + 8, 8)),
                !.link_list_ = links,
                !.record_id_ = FromLE(ReadAt(f, at, 8)),
                !.nof_samples_ = FromLE(ReadAt(f, at + 8, 8)),
                !.flags_ = FromLE(ReadAt(f, at + 16, 2)),
                !.path_separator_ = FromLE(ReadAt(f, at + 18, 2)),
                !.nof_data_bytes_ = FromLE32(ReadAt(f, at + 24, 4)),
                !.nof_invalid_bytes_ = FromLE32(ReadAt(f, at + 28, 4)),
                !.acquisition_name_ = ReadTx4(f, links[kIndexName + 1])]

\* Read by the block object g of the group block stored at offset position
Read(g, position) ==
  /\ Len(calls) < MaxCalls
  /\ cg' = [cg EXCEPT ![g] = ReadCg(cg[g], file, position)]
  /\ Called(g, "Read", 24 + 8 * Len(cg'[g].link_list_) + 8 + 8 + 2 + 2 + 4 + 4 + 4)
  /\ UNCHANGED <<file, data, data_pos, observed, cg0>>

\* Cg4Block::NofSamples(nof_samples)
SetNofSamples(g, nof_samples) ==
  /\ cg' = [cg EXCEPT ![g].nof_samples_ = nof_samples]
  /\ UNCHANGED <<file, data, data_pos, observed, calls, cg0>>

\* Cg4Block::Flags(flags)
SetFlags(g, flags) ==
  /\ cg' = [cg EXCEPT ![g].flags_ = flags]
  /\ UNCHANGED <<file, data, data_pos, observed, calls, cg0>>

\* Cg4Block::CreateChannel, and the width and flags its caller gives the
\* new channel
CreateChannel(g, flags, width) ==
  /\ Len(cg[g].cn_list_) < MaxChannels
  /\ cg' = [cg EXCEPT ![g].cn_list_ = Append(@, NewCn("", "FixedLength", flags, width))]
  /\ UNCHANGED <<file, data, data_pos, observed, calls, cg0>>

----------------------------------------------------------------------------
(* The X-axis channel of a channel *)

\* std::find_if over cn_list_ for the channel with a given Index()
RECURSIVE FindByIndex(_, _)
FindByIndex(cn_list, channel_index) ==
  IF cn_list = <<>>
  THEN Null
  ELSE IF ~IsNull(Head(cn_list)) /\ Head(cn_list).file_position_ = channel_index
  THEN Head(cn_list)
  ELSE FindByIndex(Tail(cn_list), channel_index)

\* std::find_if over cn_list_ for a master channel
RECURSIVE FindMaster(_)
FindMaster(cn_list) ==
  IF cn_list = <<>>
  THEN Null
  ELSE IF ~IsNull(Head(cn_list)) /\ Head(cn_list).type_ \in {"Master", "VirtualMaster"}
  THEN Head(cn_list)
  ELSE FindMaster(Tail(cn_list))

\* the channel GetXChannel(reference) returns, Null for nullptr
XChannel(g, reference) ==
  LET x_axis_list == reference.x_axis_
      find == IF Len(x_axis_list) = 3 /\ x_axis_list[2] = cg[g].file_position_
                 /\ x_axis_list[3] # 0
              THEN FindByIndex(cg[g].cn_list_, x_axis_list[3])
              ELSE Null
  IN  IF ~IsNull(find) THEN find ELSE FindMaster(cg[g].cn_list_)

GetXChannel(g, reference) ==
  /\ Len(calls) < MaxCalls
  /\ calls' = Append(calls, [ cg |-> g, op |-> "GetXChannel", count |-> 0,
                              reference |-> reference,
                              channel |-> XChannel(g, reference) ])
  /\ UNCHANGED <<cg, file, data, data_pos, observed, cg0>>

----------------------------------------------------------------------------
(* Record layout *)

\* x + n on a uint32_t
U32Add(x, n) ==
  Low32(U64Add(U64From32(x), U64(n)))

\* a slip: the running byte offset is not advanced past the channel
StuckByteOffset(byte_offset, channel) ==
  byte_offset

\* byte_offset += channel->DataBytes()
NextByteOffset(byte_offset, channel) ==
  byte_offset + channel.data_bytes_

\* the loop of PrepareForWriting over cn_list_, from the running byte offset,
\* invalid bit offset and nof_data_bytes_ reached so far
RECURSIVE LayoutChannels(_, _, _, _)
LayoutChannels(cns, byte_offset, invalid_bit_offset, nof_data) ==
  IF cns = <<>>
  THEN [cn_list |-> <<>>, nof_data |-> nof_data, bits |-> invalid_bit_offset]
  ELSE LET channel == Head(cns)
       IN  IF IsNull(channel)
           THEN LET rest == LayoutChannels(Tail(cns), byte_offset,
                                           invalid_bit_offset, nof_data)
                IN  [rest EXCEPT !.cn_list = <<channel>> \o @]
           ELSE LET placed == CnPrepareForWriting(channel, byte_offset)
                    flagged == HasFlag(channel.flags_, InvalidValid)
                    done == IF flagged
                            THEN SetInvalidOffset(placed, invalid_bit_offset)
                            ELSE placed
                    rest == LayoutChannels(
                              Tail(cns),
                              NextByteOffset(byte_offset, channel),
                              IF flagged THEN invalid_bit_offset + 1
                                         ELSE invalid_bit_offset,
                              U32Add(nof_data, channel.data_bytes_))
                IN  [rest EXCEPT !.cn_list = <<done>> \o @]

\* a slip: the partly filled last invalid byte is not counted
InvalidBytesRoundedDown(invalid_bit_offset) ==
  invalid_bit_offset \div 8

\* nof_invalid_bytes_ from the number of invalid bits handed out
InvalidBytes(invalid_bit_offset) ==
  IF invalid_bit_offset = 0
  THEN 0
  ELSE IF (invalid_bit_offset % 8) > 0
  THEN (invalid_bit_offset \div 8) + 1
  ELSE invalid_bit_offset \div 8

\* a slip: a VLSD group is laid out as any other group
PrepareForWritingAnyGroup(g) ==
  /\ LET lay == LayoutChannels(cg[g].cn_list_, 0, 0, U32(0))
         nof_invalid == U32(InvalidBytes(lay.bits))
         total_size == U32Val(U32Add(nof_invalid, U32Val(lay.nof_data)))
     IN  cg' = [cg EXCEPT ![g].cn_list_ = lay.cn_list,
                           ![g].nof_data_bytes_ = lay.nof_data,
                           ![g].nof_invalid_bytes_ = nof_invalid,
                           ![g].sample_buffer_ = total_size]
  /\ UNCHANGED <<file, data, data_pos, observed, calls, cg0>>

PrepareForWriting(g) ==
  /\ IF IsVlsd(g)
     THEN cg' = [cg EXCEPT ![g].nof_data_bytes_ = U32(0),
                           ![g].nof_invalid_bytes_ = U32(0),
                           ![g].sample_buffer_ = 0]
     ELSE LET lay == LayoutChannels(cg[g].cn_list_, 0, 0, U32(0))
              nof_invalid == U32(InvalidBytes(lay.bits))
              total_size == U32Val(U32Add(nof_invalid, U32Val(lay.nof_data)))
          IN  cg' = [cg EXCEPT ![g].cn_list_ = lay.cn_list,
                                ![g].nof_data_bytes_ = lay.nof_data,
                                ![g].nof_invalid_bytes_ = nof_invalid,
                                ![g].sample_buffer_ = total_size]
  /\ UNCHANGED <<file, data, data_pos, observed, calls, cg0>>

----------------------------------------------------------------------------
(* Replay of a record stream through ReadDataRecord *)

Idle ==
  /\ data_pos = 0
  /\ observed = <<>>
  /\ calls = <<>>
  /\ cg0 = cg

\* group 1 is a VLSD group in front of a stream of frames, or a fixed-length
\* group in front of a stream of records; the stream may have lost its tail
InitDecode ==
  /\ \E n \in 0..MaxSamples, rid \in {1, 2} :
       \/ \E db \in 0..MaxPayload, ib \in 0..1, k \in 0..MaxFrames, c \in 0..MaxCut :
            /\ cg = [g \in GroupIds |->
                      IF g = 1
                      THEN [NewCg EXCEPT !.nof_samples_ = n,
                                         !.record_id_ = rid,
                                         !.nof_data_bytes_ = U32(db),
                                         !.nof_invalid_bytes_ = U32(ib)]
                      ELSE NewCg]
            /\ data = Cut(FixedStream(k * (db + ib)), c)
       \/ \E lens \in SeqsUpTo(0..MaxPayload, MaxFrames), c \in 0..MaxCut :
            /\ cg = [g \in GroupIds |->
                      IF g = 1
                      THEN [NewCg EXCEPT !.nof_samples_ = n,
                                         !.record_id_ = rid,
                                         !.flags_ = VlsdChannel]
                      ELSE NewCg]
            /\ data = Cut(VlsdStream(lens, 0), c)
  /\ file = <<>>
  /\ Idle

NextDecode ==
  ReadDataRecord(1)

SpecDecode ==
  InitDecode /\ [][NextDecode]_vars

----------------------------------------------------------------------------
(* What the stream of group 1 holds, read off the bytes alone *)

\* where the i-th record of the stream ends, -1 when the stream does not
\* hold all of it; record 0 ends at offset 0
RECURSIVE RecordEnd(_)
RecordEnd(i) ==
  IF i = 0
  THEN 0
  ELSE IF ~IsVlsd(1)
  THEN IF i * RecordSize(1) <= Len(data) THEN i * RecordSize(1) ELSE -1
  ELSE LET s == RecordEnd(i - 1)
       IN  IF s < 0 \/ s + 4 > Len(data)
           THEN -1
           ELSE LET l == FromLE(SubSeq(data, s + 1, s + 4))
                IN  IF s + 4 + l > Len(data) THEN -1 ELSE s + 4 + l

\* the payload bytes of the i-th record, which the stream holds in full
RecordBytes(i) ==
  IF IsVlsd(1)
  THEN SubSeq(data, RecordEnd(i - 1) + 5, RecordEnd(i))
  ELSE SubSeq(data, RecordEnd(i - 1) + 1, RecordEnd(i))

LastCall ==
  calls[Len(calls)]

(* C1: cursor bound.  Over any sequence of ReadDataRecord calls the sample  *)
(* cursor never exceeds the sample count, and a call made when the cursor  *)
(* has reached the count delivers nothing and leaves the cursor alone: the *)
(* cursor counts the deliveries, the k-th of which carries index k-1, so a *)
(* delivery at cursor = count would push one of the two past the count.    *)
C1_CursorBound ==
  /\ cg[1].sample_ <= cg[1].nof_samples_
  /\ Len(observed) = cg[1].sample_
  /\ \A i \in 1..Len(observed) :
       /\ observed[i].sample = i - 1
       /\ observed[i].sample < cg[1].nof_samples_

\* the cursor has reached a non-zero count, a later call consumed bytes and
\* delivered nothing, and bytes remain in the stream
C1_Witness ==
  /\ cg[1].nof_samples_ > 0
  /\ cg[1].sample_ = cg[1].nof_samples_
  /\ Len(calls) > Len(observed)
  /\ LastCall.count > 0
  /\ data_pos < Len(data)

(* C2: truncated stream.  When the stream holds fewer bytes than the record *)
(* a ReadDataRecord call needs, nothing is delivered and the cursor stays: *)
(* every record the observer has seen, and every record the cursor has     *)
(* passed, is a record the stream holds in full, delivered byte for byte.  *)
C2_NoPartialRecord ==
  /\ \A i \in 1..Len(observed) :
       /\ RecordEnd(i) >= 0
       /\ observed[i].record = RecordBytes(i)
  /\ \A i \in 1..cg[1].sample_ : RecordEnd(i) >= 0

----------------------------------------------------------------------------
(* Rebuilding the counters of a group by replay of its stream *)

\* stored VLSD sizes, as <<nof_data_bytes_, nof_invalid_bytes_>>: 0, and
\* values next to the carry out of 16, 32, 48 and 64 bits
StoredSizes ==
  { <<U32(0), U32(0)>>,
    <<U32(Limb - 3), U32(0)>>,
    <<(<<Limb - 3, Limb - 1>>), U32(Limb - 3)>>,
    <<(<<Limb - 3, Limb - 1>>), (<<Limb - 1, 0>>)>>,
    <<(<<Limb - 1, Limb - 1>>), (<<Limb - 1, Limb - 1>>)>> }

\* group 1 is a VLSD group with a stored size and sample count in front of
\* a stream of frames, or a fixed-length group in front of its records
InitResync ==
  /\ \E n \in {0, MaxSamples} :
       \/ \E db \in 0..MaxPayload, ib \in 0..1, k \in 0..MaxFrames, c \in 0..MaxCut :
            /\ cg = [g \in GroupIds |->
                      IF g = 1
                      THEN [NewCg EXCEPT !.nof_samples_ = n,
                                         !.nof_data_bytes_ = U32(db),
                                         !.nof_invalid_bytes_ = U32(ib)]
                      ELSE NewCg]
            /\ data = Cut(FixedStream(k * (db + ib)), c)
       \/ \E lens \in SeqsUpTo(0..MaxPayload, MaxFrames), c \in 0..MaxCut,
              size \in StoredSizes :
            /\ cg = [g \in GroupIds |->
                      IF g = 1
                      THEN [NewCg EXCEPT !.nof_samples_ = n,
                                         !.flags_ = VlsdChannel,
                                         !.nof_data_bytes_ = size[1],
                                         !.nof_invalid_bytes_ = size[2]]
                      ELSE NewCg]
            /\ data = Cut(VlsdStream(lens, 0), c)
  /\ file = <<>>
  /\ Idle

NextResync ==
  UpdateVlsdSize(1)

SpecResync ==
  InitResync /\ [][NextResync]_vars

\* the 64-bit size a VLSD group stores: (nof_invalid_bytes_ << 32) | nof_data_bytes_
StoredSize(c) ==
  <<c.nof_data_bytes_[1], c.nof_data_bytes_[2],
    c.nof_invalid_bytes_[1], c.nof_invalid_bytes_[2]>>

\* a - b modulo 2^64, by borrowing from limb to limb
Minus64(a, b) ==
  LET d1 == a[1] - b[1]
      d2 == a[2] - b[2] - (IF d1 < 0 THEN 1 ELSE 0)
      d3 == a[3] - b[3] - (IF d2 < 0 THEN 1 ELSE 0)
      d4 == a[4] - b[4] - (IF d3 < 0 THEN 1 ELSE 0)
  IN  <<d1 % Limb, d2 % Limb, d3 % Limb, d4 % Limb>>

\* 4 + l1 + ... + 4 + ln over the first n frames of the stream, each held in full
RECURSIVE FramedBytes(_)
FramedBytes(n) ==
  IF n = 0
  THEN 0
  ELSE 4 + FromLE(SubSeq(data, RecordEnd(n - 1) + 1, RecordEnd(n - 1) + 4))
         + FramedBytes(n - 1)

\* n calls of UpdateVlsdSize and no other, over the first n frames of a
\* stream that holds each of them in full
ResyncedOver(n) ==
  /\ IsVlsd(1)
  /\ Len(calls) = n
  /\ \A i \in 1..n : calls[i].op = "UpdateVlsdSize"
  /\ RecordEnd(n) >= 0

(* C8: VLSD counter packing under resync.  After UpdateVlsdSize calls over  *)
(* n complete frames with length prefixes l1..ln, the stored size          *)
(* (nof_invalid_bytes_ << 32) | nof_data_bytes_ is the size X stored before *)
(* plus the sum of 4 + li, modulo 2^64, carries out of the low 32 bits     *)
(* included, and nof_samples_ has grown by n.                              *)
C8_VlsdSizeResync ==
  \A n \in 0..MaxCalls :
    ResyncedOver(n) =>
      /\ Minus64(StoredSize(cg[1]), StoredSize(cg0[1])) = U64(FramedBytes(n))
      /\ cg[1].nof_samples_ = cg0[1].nof_samples_ + n

\* two frames resynced, and the sum carried out of the low 32 bits
C8_Witness ==
  /\ ResyncedOver(2)
  /\ FramedBytes(2) > 8
  /\ cg0[1].nof_data_bytes_ = <<Limb - 3, Limb - 1>>
  /\ cg0[1].nof_invalid_bytes_ = <<Limb - 1, 0>>
  /\ cg[1].nof_invalid_bytes_ = <<0, 1>>

(* C15: delivery order and framing.  Over any sequence of ReadDataRecord   *)
(* calls on complete records, the k-th delivery carries sample index k-1   *)
(* and the record id of the group, its payload is byte for byte the k-th   *)
(* record of the stream (as long as its length prefix says for a VLSD      *)
(* group, 0 included, and nof_data_bytes_ + nof_invalid_bytes_ long for a  *)
(* fixed-length group), and the deliveries number min(calls, sample count).*)
C15_DeliveryOrder ==
  RecordEnd(Len(calls)) >= 0 =>
    /\ Len(observed) = Min(Len(calls), cg[1].nof_samples_)
    /\ \A k \in 1..Len(observed) :
         /\ observed[k].sample = k - 1
         /\ observed[k].record_id = cg[1].record_id_
         /\ observed[k].record = RecordBytes(k)
         /\ Len(observed[k].record) =
              IF IsVlsd(1)
              THEN FromLE(SubSeq(data, RecordEnd(k - 1) + 1, RecordEnd(k - 1) + 4))
              ELSE RecordSize(1)

\* a VLSD group with sample count 2: frames of 2 and 0 bytes delivered in
\* that order, and a 3rd call over a complete frame that delivered nothing
C15_Witness ==
  /\ IsVlsd(1)
  /\ cg[1].nof_samples_ = 2
  /\ Len(calls) = 3
  /\ RecordEnd(3) >= 0
  /\ Len(observed) = 2
  /\ Len(observed[1].record) = 2
  /\ Len(observed[2].record) = 0
  /\ LastCall.count > 4

----------------------------------------------------------------------------
(* The counters of a group rebuilt by replaying its record stream *)

\* group 1 has counted no sample and stored no size, and stands in front of
\* its records or frames; the stream may have lost its tail
InitReplay ==
  /\ \/ \E db \in 0..MaxPayload, ib \in 0..1, k \in 0..MaxFrames, c \in 0..MaxCut :
          /\ cg = [g \in GroupIds |->
                    IF g = 1
                    THEN [NewCg EXCEPT !.nof_data_bytes_ = U32(db),
                                       !.nof_invalid_bytes_ = U32(ib)]
                    ELSE NewCg]
          /\ data = Cut(FixedStream(k * (db + ib)), c)
     \/ \E lens \in SeqsUpTo(0..MaxPayload, MaxFrames), c \in 0..MaxCut :
          /\ cg = [g \in GroupIds |->
                    IF g = 1 THEN [NewCg EXCEPT !.flags_ = VlsdChannel] ELSE NewCg]
          /\ data = Cut(VlsdStream(lens, 0), c)
  /\ file = <<>>
  /\ Idle

NextReplay ==
  \/ UpdateCycleCounter(1)
  \/ UpdateVlsdSize(1)

SpecReplay ==
  InitReplay /\ [][NextReplay]_vars

\* the stream holds, from the position it is read at, one record of the
\* fixed-length group 1 or one frame of the VLSD group 1 in full
CompleteRecordAhead ==
  IF IsVlsd(1)
  THEN /\ data_pos + 4 <= Len(data)
       /\ data_pos + 4 + FromLE(SubSeq(data, data_pos + 1, data_pos + 4)) <= Len(data)
  ELSE data_pos + RecordSize(1) <= Len(data)

(* C13: counter rebuild by replay.  Each UpdateCycleCounter or             *)
(* UpdateVlsdSize call that passes one complete record adds exactly 1 to   *)
(* the sample count and leaves the sample cursor alone; a call that meets  *)
(* a truncated stream (less than one record, or than one complete frame)   *)
(* leaves the sample count and the stored VLSD size as they were.          *)
C13_CounterRebuild ==
  [][ IF CompleteRecordAhead
      THEN /\ cg'[1].nof_samples_ = cg[1].nof_samples_ + 1
           /\ cg'[1].sample_ = cg[1].sample_
      ELSE /\ cg'[1].nof_samples_ = cg[1].nof_samples_
           /\ StoredSize(cg'[1]) = StoredSize(cg[1])
    ]_vars

----------------------------------------------------------------------------
(* A write session of one group: first write, updates, and reading back *)

\* the members of a group about to be written: all plain, or all set
GroupProfiles ==
  { NewCg,
    [NewCg EXCEPT !.record_id_ = 258,
                  !.path_separator_ = 9786,
                  !.acquisition_name_ = <<67, 71>>,
                  !.cn_list_ = <<NewCn("ch", "FixedLength", 0, 1)>>] }

\* nof_data_bytes_ and nof_invalid_bytes_ of a group about to be written
GroupSizes ==
  { <<U32(0), U32(0)>>,
    <<U32(7), U32(1)>>,
    <<(<<Limb - 3, Limb - 1>>), (<<Limb - 1, 0>>)>> }

\* group 1 is a group not yet written; group 2 is the block object that
\* reads the block of group 1 back from the file
InitWrite ==
  /\ \E c \in GroupProfiles, size \in GroupSizes,
         flags \in {0, VlsdChannel, RemoteMaster, VlsdChannel + RemoteMaster} :
       cg = [g \in GroupIds |->
              IF g = 1
              THEN [c EXCEPT !.flags_ = flags,
                             !.nof_data_bytes_ = size[1],
                             !.nof_invalid_bytes_ = size[2]]
              ELSE NewCg]
  /\ file = NewFile
  /\ data = <<>>
  /\ Idle

NextWrite ==
  \/ Write(1)
  \/ \E n \in 0..MaxSamples : SetNofSamples(1, n)
  \/ cg[1].file_position_ > 0 /\ Read(2, cg[1].file_position_)

SpecWrite ==
  InitWrite /\ [][NextWrite]_vars

\* where the fixed fields of the block of group g start in the file
FieldsAt(g) ==
  cg[g].file_position_ + 24 + 8 * Len(cg[g].link_list_)

\* the offsets of the block of group g that hold its sample count, data
\* bytes and invalid bytes
CounterOffsets(g) ==
  (FieldsAt(g) + 8 .. FieldsAt(g) + 15) \cup (FieldsAt(g) + 24 .. FieldsAt(g) + 31)

\* the offsets of the block of group g
BlockOffsets(g) ==
  cg[g].file_position_ .. FieldsAt(g) + 31

\* the Write calls of group g so far
WritesOf(g) ==
  {i \in 1..Len(calls) : calls[i].cg = g /\ calls[i].op = "Write"}

(* C5: update idempotence.  Once a group has been written, no later step,   *)
(* and so no number of update writes with the sample count changed in      *)
(* between, alters a byte of its block other than the sample count, data   *)
(* bytes and invalid bytes fields: header, link table, record id, flags,   *)
(* path separator and reserved bytes stay as the first write emitted them. *)
C5_UpdateKeepsBlock ==
  [][ cg[1].file_position_ > 0 =>
        /\ cg'[1].file_position_ = cg[1].file_position_
        /\ Len(file') >= Len(file)
        /\ \A o \in BlockOffsets(1) \ CounterOffsets(1) : file'[o + 1] = file[o + 1] ]_vars

\* two update writes after the first write, and the file holds another
\* sample count than the one read back from it earlier
C5_Witness ==
  /\ Cardinality(WritesOf(1)) >= 3
  /\ cg[2].file_position_ = cg[1].file_position_
  /\ cg[1].file_position_ > 0
  /\ FromLE(ReadAt(file, FieldsAt(1) + 8, 8)) # cg[2].nof_samples_
  /\ FromLE(ReadAt(file, FieldsAt(1) + 8, 8)) = cg[1].nof_samples_

\* the members that a write and a read of the block carry over
Persisted(c) ==
  <<c.record_id_, c.nof_samples_, c.flags_, c.path_separator_,
    c.nof_data_bytes_, c.nof_invalid_bytes_, c.acquisition_name_>>

(* C6: round trip.  Whatever the members of a group, the block its first    *)
(* write emits reads back, by Read on a fresh block object, as the same    *)
(* record id, sample count, flags, path separator, data bytes, invalid     *)
(* bytes and name.                                                         *)
C6_RoundTrip ==
  [][ (cg[1].file_position_ = 0 /\ cg'[1].file_position_ > 0) =>
        Persisted(ReadCg(NewCg, file', cg'[1].file_position_)) = Persisted(cg[1]) ]_vars

\* the block object 2 has read the block of a VLSD group with a remote
\* master, a name and sizes that fill both halves, and holds its members
C6_Witness ==
  /\ cg[1].file_position_ > 0
  /\ cg[2].file_position_ = cg[1].file_position_
  /\ Len(calls) = 2
  /\ LastCall.op = "Read"
  /\ Persisted(cg[2]) = Persisted(cg[1])
  /\ cg[2].flags_ = VlsdChannel + RemoteMaster
  /\ cg[2].acquisition_name_ = <<67, 71>>
  /\ cg[2].nof_data_bytes_ = <<Limb - 3, Limb - 1>>
  /\ cg[2].nof_samples_ = MaxSamples

----------------------------------------------------------------------------
(* Counters kept up to date in the file: by the object that wrote the      *)
(* block, and by an object that read the block from the file               *)

\* group 1 is a group not yet written, in front of a stream of two frames;
\* object 2 is the block object that reads the block of group 1
InitPersist ==
  /\ \E flags \in {0, VlsdChannel} :
       cg = [g \in GroupIds |->
              IF g = 1
              THEN [NewCg EXCEPT !.flags_ = flags,
                                 !.nof_data_bytes_ = U32(7),
                                 !.nof_invalid_bytes_ = U32(1)]
              ELSE NewCg]
  /\ file = NewFile
  /\ data = VlsdStream(<<1, 0>>, 0)
  /\ Idle

NextPersist ==
  \/ Write(1)
  \/ cg[1].file_position_ > 0 /\ cg[2].file_position_ = 0
       /\ Read(2, cg[1].file_position_)
  \/ cg[2].file_position_ > 0 /\ Write(2)
  \/ \E g \in {1, 2} : SetNofSamples(g, MaxSamples)
  \/ \E flags \in {0, VlsdChannel} : SetFlags(1, flags)
  \/ IsVlsd(1) /\ data_pos < Len(data) /\ UpdateVlsdSize(1)

SpecPersist ==
  InitPersist /\ [][NextPersist]_vars

\* the step is an update write of group g
UpdateWriteStep(g) ==
  /\ cg[g].file_position_ > 0
  /\ Len(calls') = Len(calls) + 1
  /\ calls'[Len(calls')].op = "Write"
  /\ calls'[Len(calls')].cg = g

(* C14: update persists current counters.  After an update write the       *)
(* sample count stored in the file is the sample count in memory; for a    *)
(* group that was VLSD at its first write the stored data bytes and        *)
(* invalid bytes are the low and high halves in memory; for a group that   *)
(* was not, an update never writes over the stored data bytes and invalid  *)
(* bytes.  Whether the group was VLSD at its first write is read off the   *)
(* flags that write stored.                                                *)
C14_UpdatePersistsCounters ==
  [][ \A g \in {1, 2} :
        UpdateWriteStep(g) =>
          /\ FromLE(ReadAt(file', FieldsAt(g) + 8, 8)) = cg'[g].nof_samples_
          /\ IF HasFlag(FromLE(ReadAt(file, FieldsAt(g) + 16, 2)), VlsdChannel)
             THEN /\ FromLE32(ReadAt(file', FieldsAt(g) + 24, 4)) = cg'[g].nof_data_bytes_
                  /\ FromLE32(ReadAt(file', FieldsAt(g) + 28, 4)) = cg'[g].nof_invalid_bytes_
             ELSE ReadAt(file', FieldsAt(g) + 24, 8) = ReadAt(file, FieldsAt(g) + 24, 8)
    ]_vars

----------------------------------------------------------------------------
(* A write session of two groups whose channels refer to other blocks *)

\* a channel whose samples are stored in the VLSD group with record id rid
VlsdChannelOf(rid) ==
  [NewCn("vl", "VariableLength", 0, 8) EXCEPT !.vlsd_record_id_ = rid]

\* a channel whose samples are bounded by a length channel
MlsdChannel ==
  NewCn("ml", "MaxLength", 0, 8)

\* the length channel of MLSD channels
DataLengthChannel ==
  NewCn(".DataLength", "FixedLength", 0, 4)

\* a structure channel with one composite channel
Structure(member) ==
  [NewCn("st", "FixedLength", 0, 8) EXCEPT !.cx_list_ = <<member>>]

PatchChannels ==
  {VlsdChannelOf(2), MlsdChannel, DataLengthChannel}

PatchEntries ==
  PatchChannels \cup {Structure(c) : c \in PatchChannels}

\* two groups not yet written, VLSD or not, with record ids 1 and 2
InitPatch ==
  /\ \E cns1 \in SeqsUpTo(PatchEntries, MaxPatchChannels),
         cns2 \in SeqsUpTo(PatchChannels, 1),
         flags1 \in {0, VlsdChannel}, flags2 \in {0, VlsdChannel} :
       cg = [g \in GroupIds |->
              IF g = 1
              THEN [NewCg EXCEPT !.record_id_ = 1, !.flags_ = flags1, !.cn_list_ = cns1]
              ELSE IF g = 2
              THEN [NewCg EXCEPT !.record_id_ = 2, !.flags_ = flags2, !.cn_list_ = cns2]
              ELSE NewCg]
  /\ file = NewFile
  /\ data = <<>>
  /\ Idle

\* each group is written, and then updated once, in any order
NextPatch ==
  \/ Cardinality(WritesOf(1)) < 2 /\ Write(1)
  \/ Cardinality(WritesOf(2)) < 2 /\ Write(2)

SpecPatch ==
  InitPatch /\ [][NextPatch]_vars

\* the members of a sequence
Range(seq) ==
  {seq[i] : i \in 1..Len(seq)}

\* the channels of kind type among those Channels() returns for group g
ChannelsOfKind(g, type) ==
  {ch \in Range(Channels(g)) : ch.type_ = type}

\* the channels named ".DataLength" among those Channels() returns for group g
DataLengthChannels(g) ==
  {ch \in Range(Channels(g)) : ch.name_ = ".DataLength"}

Written(g) ==
  cg[g].file_position_ > 0

C10_VlsdPatchedAnywhere ==
  \A g \in {1, 2} :
    (IsVlsd(g) /\ Written(g)) =>
      \A ch \in ChannelsOfKind(1, "VariableLength")
                 \cup ChannelsOfKind(2, "VariableLength") :
        ch.vlsd_record_id_ = cg[g].record_id_ => ch.data_link_ = cg[g].file_position_

----------------------------------------------------------------------------
(* The X-axis channel of the channels of a group read from a file *)

\* the position of the i-th channel block of the group, or of the block of
\* its composite channel
AxisIndex(i, composite) ==
  Preamble + CgBlockLength(FALSE) + (2 * CnBlockLength * (i - 1))
    + (IF composite THEN CnBlockLength ELSE 0)

AxisIndexes ==
  {AxisIndex(i, b) : i \in 1..MaxAxisChannels, b \in BOOLEAN}

\* a channel at position i: its kind, and the kind of its composite channel
\* ("" when it has none)
AxisEntries ==
  [ type : {"FixedLength", "Master", "VirtualMaster"},
    composite : {"", "FixedLength", "Master"} ]

AxisChannel(i, e) ==
  [NewCn("cn", e.type, 0, 8) EXCEPT
     !.file_position_ = AxisIndex(i, FALSE),
     !.cx_list_ = IF e.composite = ""
                  THEN <<>>
                  ELSE <<[NewCn("cx", e.composite, 0, 8) EXCEPT
                            !.file_position_ = AxisIndex(i, TRUE)]>>]

\* the axis-link records a channel block can hold: none, a record of three
\* links (data block, channel group, channel), a record cut to two links
AxisRecords ==
  {<<>>}
    \cup {<<0, group, channel>> : group \in {Preamble, Preamble + 1},
                                 channel \in AxisIndexes \cup {0}}
    \cup {<<Preamble, channel>> : channel \in AxisIndexes}

\* a group at position Preamble whose first channel holds an axis record
InitAxis ==
  /\ \E entries \in SeqsUpTo(AxisEntries, MaxAxisChannels) \ {<<>>},
         x_axis \in AxisRecords :
       LET cn_list == [i \in 1..Len(entries) |-> AxisChannel(i, entries[i])]
       IN  cg = [g \in GroupIds |->
                  IF g = 1
                  THEN [NewCg EXCEPT !.file_position_ = Preamble,
                                     !.cn_list_ = [cn_list EXCEPT ![1].x_axis_ = x_axis]]
                  ELSE NewCg]
  /\ file = NewFile
  /\ data = <<>>
  /\ Idle

\* one query, for any channel of the group
NextAxis ==
  \E i \in 1..Len(Channels(1)) :
    calls = <<>> /\ GetXChannel(1, Channels(1)[i])

SpecAxis ==
  InitAxis /\ [][NextAxis]_vars

\* the channels of group 1, composite channels included, that are masters
Masters ==
  ChannelsOfKind(1, "Master") \cup ChannelsOfKind(1, "VirtualMaster")

(* C7: axis resolution precedence.  For a reference channel whose axis     *)
(* record has exactly 3 entries, the middle one the identity of this group *)
(* and the third the identity of a channel of this group, GetXChannel      *)
(* returns that channel, whatever masters the group has; for a reference   *)
(* channel without an axis record it returns a master channel of the group *)
(* if there is one, and none otherwise.                                    *)
C7_AxisPrecedence ==
  (calls # <<>> /\ LastCall.op = "GetXChannel") =>
    LET x == LastCall.reference.x_axis_
        ret == LastCall.channel
    IN  /\ (Len(x) = 3 /\ x[2] = cg[1].file_position_) =>
             \A ch \in Range(Channels(1)) :
               ch.file_position_ = x[3] => ret = ch
        /\ x = <<>> =>
             IF Masters = {} THEN IsNull(ret) ELSE ret \in Masters

(* C12: axis fallback over the flattened list.  Whenever the axis link of   *)
(* the reference does not resolve (no record of 3 entries, a middle entry  *)
(* naming another group, a third entry that is 0 or that matches no        *)
(* channel of this group), GetXChannel returns the first channel of kind   *)
(* Master or VirtualMaster in the flattened channel list of the group,     *)
(* composite channels included, and none only when that list has no such   *)
(* channel.                                                                *)
C12_AxisFallbackFlattened ==
  (calls # <<>> /\ LastCall.op = "GetXChannel") =>
    LET x == LastCall.reference.x_axis_
        resolves == /\ Len(x) = 3
                    /\ x[2] = cg[1].file_position_
                    /\ x[3] # 0
                    /\ \E ch \in Range(Channels(1)) : ch.file_position_ = x[3]
    IN  ~resolves => LastCall.channel = FindMaster(Channels(1))

----------------------------------------------------------------------------
(* The life of one group: layout, writes, and the replay of its records *)

\* a new group, VLSD in front of a stream of empty frames or fixed-length
\* with one channel in front of a stream of records
InitLife ==
  /\ \/ /\ cg = [g \in GroupIds |->
                 IF g = 1
                 THEN [NewCg EXCEPT !.nof_samples_ = 1,
                                    !.cn_list_ = <<NewCn("cn", "FixedLength", 0, MaxPayload)>>]
                 ELSE NewCg]
        /\ data = FixedStream(MaxPayload * MaxFrames)
     \/ /\ cg = [g \in GroupIds |->
                 IF g = 1
                 THEN [NewCg EXCEPT !.nof_samples_ = 1, !.flags_ = VlsdChannel]
                 ELSE NewCg]
        /\ data = VlsdStream([i \in 1..MaxFrames |-> 0], 0)
  /\ file = NewFile
  /\ Idle

NextLife ==
  \/ PrepareForWriting(1)
  \/ Write(1)
  \/ ReadDataRecord(1)
  \/ UpdateCycleCounter(1)
  \/ UpdateVlsdSize(1)
  \/ StepRecord(1)

SpecLife ==
  InitLife /\ [][NextLife]_vars

\* the step is a call of Write on group 1
WriteStep ==
  /\ Len(calls') = Len(calls) + 1
  /\ calls'[Len(calls')].op = "Write"

(* C11: identity stability.  The identity of a group (Index(), its file    *)
(* position) is 0 until its first write and becomes non-zero exactly at    *)
(* that write; from then on no update write, layout, ReadDataRecord,       *)
(* UpdateCycleCounter, UpdateVlsdSize or StepRecord call changes it, and a *)
(* write on a group with a non-zero identity takes the update path: no     *)
(* block is appended and the recorded positions stay.                      *)
C11_IdentityStable ==
  [][ /\ (WritesOf(1) = {}) => cg[1].file_position_ = 0
      /\ (cg[1].file_position_ = 0 /\ ~WriteStep) => cg'[1].file_position_ = 0
      /\ (cg[1].file_position_ = 0 /\ WriteStep) => cg'[1].file_position_ # 0
      /\ cg[1].file_position_ # 0 => cg'[1].file_position_ = cg[1].file_position_
      /\ (cg[1].file_position_ # 0 /\ WriteStep) =>
           /\ Len(file') = Len(file)
           /\ cg'[1].block_length_ = cg[1].block_length_
           /\ cg'[1].nof_samples_position_ = cg[1].nof_samples_position_
           /\ cg'[1].nof_data_position_ = cg[1].nof_data_position_
           /\ cg'[1].nof_invalid_position_ = cg[1].nof_invalid_position_
    ]_vars

\* the group was written, then updated after calls of the other kinds, and
\* its identity is the position its first write gave it
C11_Witness ==
  /\ Cardinality(WritesOf(1)) >= 2
  /\ Len(calls) >= 4
  /\ cg[1].nof_samples_ > cg0[1].nof_samples_
  /\ cg[1].file_position_ = Preamble + (IF cg[1].cn_list_ = <<>> THEN 0 ELSE CnBlockLength)

----------------------------------------------------------------------------
(* The link patches applied again, and in any order, to groups that have   *)
(* their positions                                                         *)

\* the channels of two groups and the blocks of the groups, placed one
\* after the other behind the preamble
PlacedGroups(cns1, cns2) ==
  LET first == PlaceBlocks(cns1, Preamble)
      second == PlaceBlocks(cns2, first.pos + CgBlockLength(FALSE))
  IN  [ cn_list |-> <<first.list, second.list>>,
        position |-> <<first.pos, second.pos>>,
        end |-> second.pos + CgBlockLength(FALSE) ]

\* two written groups, VLSD or not, whose channels hold no link yet
InitRepatch ==
  /\ \E cns1 \in SeqsUpTo(PatchEntries, MaxPatchChannels),
         cns2 \in SeqsUpTo(PatchChannels, 1),
         flags1 \in {0, VlsdChannel}, flags2 \in {0, VlsdChannel} :
       LET placed == PlacedGroups(cns1, cns2)
       IN  /\ cg = [g \in GroupIds |->
                     IF g \in {1, 2}
                     THEN [NewCg EXCEPT !.record_id_ = g,
                                        !.flags_ = IF g = 1 THEN flags1 ELSE flags2,
                                        !.cn_list_ = placed.cn_list[g],
                                        !.file_position_ = placed.position[g]]
                     ELSE NewCg]
           /\ file = [i \in 1..placed.end |-> 0]
  /\ data = <<>>
  /\ Idle

\* the Patch calls of group g so far
PatchesOf(g) ==
  {i \in 1..Len(calls) : calls[i].cg = g /\ calls[i].op = "Patch"}

\* each group is patched, and then patched again, in any order
NextRepatch ==
  \/ Cardinality(PatchesOf(1)) < 2 /\ PatchGroup(1)
  \/ Cardinality(PatchesOf(2)) < 2 /\ PatchGroup(2)

SpecRepatch ==
  InitRepatch /\ [][NextRepatch]_vars

\* the link channel i of group g ends with, from the links before any patch:
\* the position of the group for a VLSD channel of a VLSD group, the position
\* of the first ".DataLength" channel of the group for an MLSD channel
FinalLink(g, i) ==
  LET before == ChannelsOf(cg0[g].cn_list_)
      data_length == GetChannel(before, ".DataLength")
  IN  IF before[i].type_ = "MaxLength" /\ ~IsNull(data_length)
      THEN data_length.file_position_
      ELSE IF before[i].type_ = "VariableLength" /\ IsVlsd(g)
      THEN cg0[g].file_position_
      ELSE before[i].data_link_

(* C18: back-patch idempotence and order independence.  With the positions *)
(* of the groups fixed, applying the VLSD and ".DataLength" patches of a   *)
(* group a second time changes no link, and once the patches of all groups *)
(* have been applied, in whichever order, every variable-length-           *)
(* referencing and max-length-referencing channel has the same link.       *)
C18_BackPatchIdempotent ==
  [][ /\ \A g \in {1, 2} :
           (PatchesOf(g) # {} /\ PatchGroup(g)) => (cg' = cg /\ file' = file)
      /\ (\A g \in {1, 2} : PatchesOf(g)' # {}) =>
           \A g \in {1, 2} :
             \A i \in 1..Len(ChannelsOf(cg'[g].cn_list_)) :
               ChannelsOf(cg'[g].cn_list_)[i].data_link_ = FinalLink(g, i)
    ]_vars

\* both groups patched twice, group 2 first: the VLSD channel of the VLSD
\* group 2 is linked to the group, the composite MLSD channel of group 1 to
\* the length channel that follows it
C18_Witness ==
  /\ Len(calls) = 4
  /\ calls[1].cg = 2
  /\ calls[2].cg = 1
  /\ IsVlsd(2)
  /\ cg[2].cn_list_ # <<>>
  /\ cg[2].cn_list_[1].type_ = "VariableLength"
  /\ cg[2].cn_list_[1].data_link_ = cg[2].file_position_
  /\ Len(cg[1].cn_list_) = 2
  /\ cg[1].cn_list_[1].cx_list_ # <<>>
  /\ cg[1].cn_list_[1].cx_list_[1].type_ = "MaxLength"
  /\ cg[1].cn_list_[2].name_ = ".DataLength"
  /\ cg[1].cn_list_[1].cx_list_[1].data_link_ = cg[1].cn_list_[2].file_position_
  /\ cg[1].cn_list_[2].file_position_ > 0

----------------------------------------------------------------------------
(* Layout of a group before a write session *)

ChannelWidths ==
  {1, 2, 4}

\* the channel lists laid out: up to MaxChannels channels of any width,
\* flagged or not, empty pointers among them; and up to MaxFlagged one-byte
\* channels, flagged or not, to fill more than one invalid byte
ChannelLists ==
  SeqsUpTo({NewCn("", "FixedLength", f, w) :
              f \in {0, InvalidValid}, w \in ChannelWidths} \cup {Null},
           MaxChannels)
  \cup SeqsUpTo({NewCn("", "FixedLength", f, 1) : f \in {0, InvalidValid}},
                MaxFlagged)

\* group 1 holds a channel list and the sizes an earlier session left behind
InitLayout ==
  /\ \E cns \in ChannelLists, flags \in {0, VlsdChannel}, stale \in {0, 5} :
       cg = [g \in GroupIds |->
              IF g = 1
              THEN [NewCg EXCEPT !.cn_list_ = cns,
                                 !.flags_ = flags,
                                 !.nof_data_bytes_ = U32(stale),
                                 !.nof_invalid_bytes_ = U32(stale),
                                 !.sample_buffer_ = stale + stale]
              ELSE NewCg]
  /\ file = <<>>
  /\ data = <<>>
  /\ Idle

NextLayout ==
  PrepareForWriting(1)

SpecLayout ==
  InitLayout /\ [][NextLayout]_vars

\* the channels of a list that are there
Present(cns) ==
  {i \in 1..Len(cns) : ~IsNull(cns[i])}

\* the summed width of the first n entries of a channel list
RECURSIVE WidthOfFirst(_, _)
WidthOfFirst(cns, n) ==
  IF n = 0
  THEN 0
  ELSE WidthOfFirst(cns, n - 1) + (IF IsNull(cns[n]) THEN 0 ELSE cns[n].data_bytes_)

\* how many of the first n entries of a channel list are invalid-capable
FlaggedInFirst(cns, n) ==
  Cardinality({i \in Present(cns) : i <= n /\ HasFlag(cns[i].flags_, InvalidValid)})

(* C3: layout contiguity.  PrepareForWriting on a non-VLSD group gives each *)
(* channel the byte offset that is the summed width of the channels before *)
(* it in declaration order, and nof_data_bytes_ is the summed width of all *)
(* of them: the channels tile [0, nof_data_bytes_) without gap or overlap. *)
C3_LayoutContiguous ==
  [][ (PrepareForWriting(1) /\ ~IsVlsd(1)) =>
        LET cns == cg'[1].cn_list_
        IN  /\ Len(cns) = Len(cg[1].cn_list_)
            /\ \A i \in Present(cns) :
                 /\ cns[i].byte_offset_ = WidthOfFirst(cns, i - 1)
                 /\ cns[i].data_bytes_ = cg[1].cn_list_[i].data_bytes_
            /\ U32Val(cg'[1].nof_data_bytes_) = WidthOfFirst(cns, Len(cns)) ]_vars

\* widths 4, 2, 1 laid out at offsets 0, 4, 6 in a record of 7 data bytes
C3_Witness ==
  LET cns == cg[1].cn_list_
  IN  /\ ~IsVlsd(1)
      /\ Len(cns) = 3
      /\ \A i \in 1..3 : ~IsNull(cns[i])
      /\ <<cns[1].data_bytes_, cns[2].data_bytes_, cns[3].data_bytes_>> = <<4, 2, 1>>
      /\ <<cns[1].byte_offset_, cns[2].byte_offset_, cns[3].byte_offset_>> = <<0, 4, 6>>
      /\ cg[1].nof_data_bytes_ = U32(7)

(* C4: invalid-bit packing.  PrepareForWriting on a non-VLSD group with k   *)
(* invalid-capable channels gives them the invalid bit positions 0..k-1 in *)
(* declaration order, gives no position to any other channel, and sets     *)
(* nof_invalid_bytes_ to ceil(k/8), which is 0 when k is 0.                *)
C4_InvalidBitPacking ==
  [][ (PrepareForWriting(1) /\ ~IsVlsd(1)) =>
        LET old == cg[1].cn_list_
            cns == cg'[1].cn_list_
            k == FlaggedInFirst(cns, Len(cns))
        IN  /\ Len(cns) = Len(old)
            /\ \A i \in Present(cns) :
                 /\ cns[i].flags_ = old[i].flags_
                 /\ IF HasFlag(cns[i].flags_, InvalidValid)
                    THEN cns[i].invalid_bit_pos_ = FlaggedInFirst(cns, i - 1)
                    ELSE cns[i].invalid_bit_pos_ = old[i].invalid_bit_pos_
            /\ U32Val(cg'[1].nof_invalid_bytes_) = (k + 7) \div 8 ]_vars

\* nine invalid-capable channels hold the bits 0..8 in two invalid bytes
C4_Witness ==
  LET cns == cg[1].cn_list_
  IN  /\ ~IsVlsd(1)
      /\ Len(cns) = 9
      /\ \A i \in 1..9 : /\ HasFlag(cns[i].flags_, InvalidValid)
                          /\ cns[i].invalid_bit_pos_ = i - 1
      /\ cg[1].nof_invalid_bytes_ = U32(2)

(* C16: VLSD layout skip.  PrepareForWriting on a VLSD group, whatever its  *)
(* channel list and whatever nof_data_bytes_ and nof_invalid_bytes_ held   *)
(* before, ends with both 0 and the sample buffer empty, and gives no      *)
(* channel a byte offset or an invalid bit position.                       *)
C16_VlsdLayoutSkip ==
  [][ (PrepareForWriting(1) /\ IsVlsd(1)) =>
        /\ cg'[1].nof_data_bytes_ = U32(0)
        /\ cg'[1].nof_invalid_bytes_ = U32(0)
        /\ cg'[1].sample_buffer_ = 0
        /\ cg'[1].cn_list_ = cg[1].cn_list_ ]_vars

\* a VLSD group with three channels, two of them invalid-capable, had sizes
\* 5 and 5 and a buffer; they are 0 now and its channels are as they were
C16_Witness ==
  LET cns == cg[1].cn_list_
  IN  /\ IsVlsd(1)
      /\ cg0[1].nof_data_bytes_ = U32(5)
      /\ cg0[1].sample_buffer_ > 0
      /\ cg[1].nof_data_bytes_ = U32(0)
      /\ cg[1].nof_invalid_bytes_ = U32(0)
      /\ cg[1].sample_buffer_ = 0
      /\ Len(cns) = 3
      /\ \A i \in 1..3 : ~IsNull(cns[i]) /\ cns[i].byte_offset_ = 0
                            /\ cns[i].invalid_bit_pos_ = 0
      /\ HasFlag(cns[2].flags_, InvalidValid)
      /\ HasFlag(cns[3].flags_, InvalidValid)
      /\ cns[1].data_bytes_ = 4

----------------------------------------------------------------------------
(* Channels created, laid out and written in any order *)

\* a new group without channels, VLSD or not
InitSession ==
  /\ \E flags \in {0, VlsdChannel} :
       cg = [g \in GroupIds |->
              IF g = 1 THEN [NewCg EXCEPT !.flags_ = flags] ELSE NewCg]
  /\ file = NewFile
  /\ data = <<>>
  /\ Idle

NextSession ==
  \/ \E flags \in {0, InvalidValid}, width \in {1, 2} : CreateChannel(1, flags, width)
  \/ PrepareForWriting(1)
  \/ Write(1)

SpecSession ==
  InitSession /\ [][NextSession]_vars

(* C17: no stale layout is written.  In every first write of a non-VLSD    *)
(* group, after any sequence of CreateChannel, PrepareForWriting and Write  *)
(* calls, the data bytes and invalid bytes emitted to the file are the     *)
(* ones PrepareForWriting computes from the channel list as it is at the   *)
(* write: the summed width of the channels, and ceil(k/8) for its k        *)
(* invalid-capable channels.                                               *)
C17_NoStaleLayout ==
  [][ (cg[1].file_position_ = 0 /\ cg'[1].file_position_ > 0 /\ ~IsVlsd(1)) =>
        LET cns == cg[1].cn_list_
            at == cg'[1].file_position_ + 24 + 8 * Len(cg'[1].link_list_)
        IN  /\ FromLE32(ReadAt(file', at + 24, 4)) = U32(WidthOfFirst(cns, Len(cns)))
            /\ FromLE32(ReadAt(file', at + 28, 4))
                 = U32((FlaggedInFirst(cns, Len(cns)) + 7) \div 8) ]_vars

----------------------------------------------------------------------------
(* The channels of a group with compositions, enumerated *)

\* a composition block that is not a channel (an array block), which may
\* itself hold a block list
ArrayBlock(cx_list) ==
  [NewCn("", "FixedLength", 0, 0) EXCEPT !.block_type_ = "CA", !.cx_list_ = cx_list]

\* what a composition list of a top-level channel may hold: a channel, a
\* channel with a composite channel of its own, an array block that holds a
\* channel, an empty pointer
CompositeEntries ==
  { NewCn("", "FixedLength", 0, 1),
    [NewCn("", "FixedLength", 0, 1) EXCEPT !.cx_list_ = <<NewCn("", "FixedLength", 0, 1)>>],
    ArrayBlock(<<NewCn("", "FixedLength", 0, 1)>>),
    Null }

\* what cn_list_ may hold: a channel with a composition list, an empty pointer
TopEntries ==
  {[NewCn("", "FixedLength", 0, 1) EXCEPT !.cx_list_ = cx] :
     cx \in SeqsUpTo(CompositeEntries, 2)} \cup {Null}

\* every block of a list named by its path from cn_list_
RECURSIVE Labelled(_, _)
Labelled(list, path) ==
  [i \in 1..Len(list) |->
     IF IsNull(list[i])
     THEN list[i]
     ELSE [list[i] EXCEPT !.name_ = Append(path, i),
                          !.cx_list_ = Labelled(@, Append(path, i))]]

InitEnumerate ==
  /\ \E cns \in SeqsUpTo(TopEntries, MaxTopChannels) :
       cg = [g \in GroupIds |->
              IF g = 1 THEN [NewCg EXCEPT !.cn_list_ = Labelled(cns, <<>>)] ELSE NewCg]
  /\ file = <<>>
  /\ data = <<>>
  /\ Idle

NextEnumerate ==
  calls = <<>> /\ ListChannels(1)

SpecEnumerate ==
  InitEnumerate /\ [][NextEnumerate]_vars

\* the block at a path of at most three steps from cn_list_ of group 1, Null
\* when the path leaves the lists or passes through a block that is not a
\* channel
BlockAt(path) ==
  LET top == cg[1].cn_list_
      first == IF path[1] <= Len(top) THEN top[path[1]] ELSE Null
      second == IF Len(path) >= 2 /\ first.block_type_ = "CN"
                   /\ path[2] <= Len(first.cx_list_)
                THEN first.cx_list_[path[2]] ELSE Null
      third == IF Len(path) >= 3 /\ second.block_type_ = "CN"
                  /\ path[3] <= Len(second.cx_list_)
               THEN second.cx_list_[path[3]] ELSE Null
  IN  IF Len(path) = 1 THEN first ELSE IF Len(path) = 2 THEN second ELSE third

\* the paths of the channels of the hierarchy of group 1: blocks of kind CN
\* reached through blocks of kind CN only
ChannelPaths ==
  LET steps == 1..(MaxTopChannels + 2)
  IN  {p \in {<<i>> : i \in steps} \cup (steps \X steps) \cup (steps \X steps \X steps) :
         BlockAt(p).block_type_ = "CN"}

\* path p comes before path q depth first: a parent before its children,
\* a child and what it holds before the next child
RECURSIVE ComesBefore(_, _)
ComesBefore(p, q) ==
  IF p = <<>> THEN q # <<>>
  ELSE IF q = <<>> THEN FALSE
  ELSE IF Head(p) # Head(q) THEN Head(p) < Head(q)
  ELSE ComesBefore(Tail(p), Tail(q))

(* C19: flattened channel enumeration.  Channels() returns every top-level *)
(* channel in declaration order, each followed at once by its composite    *)
(* channels depth first, a parent before its children; every channel of    *)
(* the hierarchy is there exactly once, no entry is an empty pointer, and  *)
(* a composition block that is not a channel is left out together with     *)
(* what it holds.                                                          *)
C19_FlattenedChannels ==
  (calls # <<>> /\ LastCall.op = "Channels") =>
    LET list == LastCall.channels
    IN  /\ \A i \in 1..Len(list) :
             /\ list[i].block_type_ = "CN"
             /\ list[i].name_ \in ChannelPaths
             /\ list[i] = BlockAt(list[i].name_)
        /\ \A p \in ChannelPaths : \E i \in 1..Len(list) : list[i].name_ = p
        /\ \A i, j \in 1..Len(list) :
             i < j => ComesBefore(list[i].name_, list[j].name_)

\* two top-level channels: the first holds an array block with a channel
\* in it and a channel with a composite channel of its own; five channels
\* are listed, the array block and the channel in it are not
C19_Witness ==
  /\ calls # <<>>
  /\ LastCall.op = "Channels"
  /\ Len(cg[1].cn_list_) = 2
  /\ ~IsNull(cg[1].cn_list_[1])
  /\ Len(cg[1].cn_list_[1].cx_list_) = 2
  /\ cg[1].cn_list_[1].cx_list_[1].block_type_ = "CA"
  /\ [i \in 1..LastCall.count |-> LastCall.channels[i].name_]
       = << <<1>>, <<1, 2>>, <<1, 2, 1>>, <<2>>, <<2, 1>> >>

====
